---- MODULE Spec2Model ----
(***************************************************************************)
(* Model of the imagemanage image browser: the ImageManager window (index  *)
(* cursor, input mode, input box, keybind table) of src/imagemanage.py and *)
(* the KeyBind aggregation of src/lib/qhelper.py.                          *)
(***************************************************************************)
EXTENDS Integers, Sequences, FiniteSets, TLC

(* ---------------------------------------------------------------- bounds *)
\* Largest image sequence handed to the constructor.
MaxImages == 5
\* Longest text typed into the input box.
MaxText == 1
\* Number of _add_keybind calls made after construction.
MaxBinds == 2
\* Length of the image sequence of the window that takes later registrations.
BindImages == 2

(* ------------------------------------------------------------- constants *)
ADVANCE_MANY_AMOUNT == 10

MODE_NONE == "none"
MODE_RENAME == "rename"
MODE_GOTO == "goto"
MODE_SET_IMAGE == "set-image"
MODE_LABEL == "label"
MODE_COMMAND == "command"
Modes == {MODE_NONE, MODE_RENAME, MODE_GOTO, MODE_SET_IMAGE, MODE_LABEL, MODE_COMMAND}

\* Marker of "the last event was not of this kind" in the observation variables.
Nothing == "-"

\* Exceptions a handler can end with.
NoError == "none"
Errors == {NoError, "ValueError", "TypeError", "NameError"}

VARIABLES
  count,        \* self._count: length of the image sequence
  undrawable,   \* indices of images whose redraw raises ValueError
  advance_many, \* self._advance_many
  index,        \* self._index
  mode,         \* self._mode
  visible,      \* self.textbox.isVisible()
  focus,        \* self.textbox.hasFocus()
  text,         \* self.textbox.text()
  output,       \* self._output
  closed,       \* the window has been closed
  keybinds,     \* self._keybinds: key string -> KeyBind._functions
  registered,   \* key string -> the (func, args) requests made to _add_keybind
  key,          \* key combination of the last event, or Nothing
  invoked,      \* calls made by KeyBind.__call__ during the last event
  blocked,      \* the last event was inhibited by _blocked_by_input
  dispatched,   \* local `mode` of _on_command in the last event, or Nothing
  warned,       \* the last event logged the "Invalid mode" warning
  error,        \* exception the last event ended with
  \* ImageDrawWidget and its Handles
  _id,            \* Handles._id
  _text_objects,  \* ImageDrawWidget._text_objects: the handles being drawn
  _current_frame, \* ImageDrawWidget._current_frame has been set
  issued,         \* the handles add_text has returned, in order
  cleared,        \* the last clear_text call: its handles, and _id at that time
  raised,         \* exception the last widget call ended with
  \* iterate_from
  sequence,       \* the sequence argument
  start_index,    \* the start_index argument
  iterated,       \* list(iterate_from(sequence, start_index)), once it has run
  \* format_size
  num_bytes,      \* the byte count, as its digits in base `scale`, lowest first
  places,         \* the places argument (PlacesNone for None)
  base,           \* the base argument
  formatted,      \* format_size(num_bytes, places, base), once it has run
  \* get_files, gather_images
  missing,        \* the listed or named paths that do not exist
  got,            \* the last call of get_files: arguments and outcome
  gathered,       \* the last call of gather_images: arguments and outcome
  \* main, ImageManager()
  startup,        \* how the program, or a construction of the window, went
  \* interpret_amount
  amount          \* the last call of interpret_amount: arguments and outcome

\* The window's variables.
winvars == <<count, undrawable, advance_many, index, mode, visible, focus, text,
             output, closed, keybinds, registered, key, invoked, blocked,
             dispatched, warned, error>>

\* The overlay widget's variables.
hvars == <<_id, _text_objects, _current_frame, issued, cleared, raised>>

\* The variables of a call of iterate_from.
itvars == <<sequence, start_index, iterated>>

\* The variables of a call of format_size.
fsvars == <<num_bytes, places, base, formatted>>

\* The variables of the file gathering.
gvars == <<missing, got, gathered>>

\* The variables outside the window.
libvars == <<hvars, itvars, fsvars, gvars, startup, amount>>

vars == <<winvars, libvars>>

(* ------------------------------------------------- the window as a value *)
\* The part of the window a key handler reads and writes.
Window == [count |-> count, undrawable |-> undrawable,
           advance_many |-> advance_many, index |-> index, mode |-> mode,
           visible |-> visible, focus |-> focus, output |-> output,
           closed |-> closed, invoked |-> <<>>, blocked |-> FALSE,
           error |-> NoError]

Raise(st, exc) == [st EXCEPT !.error = exc]

\* ImageManager.redraw: an image of unknown mimetype or with an encoding raises.
redraw(st) ==
  IF st.index \in st.undrawable THEN Raise(st, "ValueError") ELSE st

\* Faulty variant: ImageManager.set_index that keeps the old index when the
\* redraw fails.
set_index_redraw_first(st, idx) ==
  IF idx < 0 \/ idx >= st.count
    THEN Raise(st, "ValueError")
    ELSE IF idx \in st.undrawable
      THEN Raise(st, "ValueError")
      ELSE [st EXCEPT !.index = idx]

\* Faulty variant: ImageManager.set_index that lets the index be the count.
set_index_inclusive(st, idx) ==
  IF idx < 0 \/ idx > st.count
    THEN Raise(st, "ValueError")
    ELSE redraw([st EXCEPT !.index = idx])

\* ImageManager.set_index
set_index(st, idx) ==
  IF idx < 0 \/ idx >= st.count
    THEN Raise(st, "ValueError")
    ELSE redraw([st EXCEPT !.index = idx])

\* Faulty variant: ImageManager._advance_index without wrap or range check.
_advance_index_unwrapped(st, by) ==
  redraw([st EXCEPT !.index = st.index + by])

\* Faulty variant: ImageManager._advance_index that clamps at the ends instead of wrapping.
_advance_index_clamped(st, by) ==
  LET to == st.index + by
  IN set_index(st, IF to < 0 THEN 0 ELSE IF to >= st.count THEN st.count - 1 ELSE to)

\* ImageManager._advance_index
_advance_index(st, by) ==
  set_index(st, (st.index + by) % st.count)

\* ImageManager._show_textbox
_show_textbox(st) ==
  [st EXCEPT !.visible = TRUE, !.focus = TRUE]

\* Faulty variant: ImageManager._hide_textbox that only drops the focus.
_hide_textbox_focus_only(st) ==
  [st EXCEPT !.focus = FALSE]

\* ImageManager._hide_textbox
_hide_textbox(st) ==
  [st EXCEPT !.focus = FALSE, !.visible = FALSE]

\* QMainWindow.close
close(st) ==
  [st EXCEPT !.closed = TRUE]

\* Faulty variant: ImageManager._key_on_escape that quits whenever the box lacks focus.
_key_on_escape_focus_only(st) ==
  LET s == [st EXCEPT !.mode = MODE_NONE]
  IN IF st.focus THEN _hide_textbox(s) ELSE close(s)

\* ImageManager._key_on_escape
_key_on_escape(st) ==
  LET s == [st EXCEPT !.mode = MODE_NONE]
  IN IF st.focus \/ st.visible THEN _hide_textbox(s) ELSE close(s)

\* The five mode-entry handlers: set the mode, show the input box.
enter_mode(st, m) ==
  _show_textbox([st EXCEPT !.mode = m])

(* ------------------------------------------------------------- handlers *)
\* Handlers decorated with @_blocked_by_input.
GuardedHandlers ==
  {"_key_prev_image", "_key_next_image", "_key_prev_many", "_key_next_many",
   "_key_rename_image", "_key_delete_image", "_key_find_image",
   "_key_go_to_image", "_key_show_help", "_key_adjust", "_key_toggle_text",
   "_key_label", "_key_toggle_zoom", "_key_enter_command", "_key_zoom_out",
   "_key_zoom_in", "_key_mark_image"}

Handlers == GuardedHandlers \cup {"close", "_key_on_escape"}

\* Number of positional parameters a handler takes besides self.
Arity(name) ==
  IF name \in {"_key_adjust", "_key_mark_image"} THEN 1 ELSE 0

\* The body of each handler, once it is called with the right number of arguments.
Body(name, st) ==
  CASE name = "close" -> close(st)
    [] name = "_key_on_escape" -> _key_on_escape(st)
    [] name = "_key_prev_image" -> _advance_index(st, -1)
    [] name = "_key_next_image" -> _advance_index(st, 1)
    [] name = "_key_prev_many" -> _advance_index(st, -st.advance_many)
    [] name = "_key_next_many" -> _advance_index(st, st.advance_many)
    [] name = "_key_rename_image" -> enter_mode(st, MODE_RENAME)
    [] name = "_key_find_image" -> enter_mode(st, MODE_SET_IMAGE)
    [] name = "_key_go_to_image" -> enter_mode(st, MODE_GOTO)
    [] name = "_key_label" -> enter_mode(st, MODE_LABEL)
    [] name = "_key_enter_command" -> enter_mode(st, MODE_COMMAND)
    [] OTHER -> st

\* Python's call of a handler body: a wrong number of arguments is a TypeError.
Apply(name, st, args) ==
  IF Len(args) # Arity(name) THEN Raise(st, "TypeError") ELSE Body(name, st)

\* Faulty variant: _blocked_by_input that never inhibits.
_blocked_by_input_never(name, st, args) ==
  Apply(name, st, args)

\* _blocked_by_input: the wrapper takes any arguments and tests the focus first.
_blocked_by_input(name, st, args) ==
  IF st.focus THEN [st EXCEPT !.blocked = TRUE] ELSE Apply(name, st, args)

\* Calling the bound method `name` with `args`.
CallHandler(name, st, args) ==
  LET s == [st EXCEPT !.invoked = Append(@, <<name, args>>)]
  IN IF name \in GuardedHandlers
       THEN _blocked_by_input(name, s, args)
       ELSE Apply(name, s, args)

(* --------------------------------------------------------------- KeyBind *)
\* A member of KeyBind._functions: a bound method, a wrapper made by bind, or
\* a value that is no callable at all.
Func(name) == [kind |-> "func", name |-> name, args |-> <<>>]
Wrapper(name, args) == [kind |-> "wrapper", name |-> name, args |-> args]
Value(v) == [kind |-> "value", name |-> "", args |-> <<v>>]

\* Faulty variant: KeyBind.__init__ that wraps the function with its bound arguments.
KeyBind_init_wrapping(func, args) ==
  <<Wrapper(func, args)>>

\* KeyBind.__init__(keys, *functions): every positional argument after the
\* keys becomes a member of _functions.
KeyBind_init(func, args) ==
  <<Func(func)>> \o [i \in 1..Len(args) |-> Value(args[i])]

\* KeyBind.bind: qhelper.py never imports functools, so evaluating the
\* decorator raises NameError before the wrapper is appended.
KeyBind_bind(functions, func, args) ==
  [functions |-> functions, error |-> "NameError"]

\* One iteration of KeyBind.__call__: func(*args).
CallMember(member, st, args) ==
  CASE member.kind = "func" -> CallHandler(member.name, st, args)
    [] member.kind = "wrapper" -> CallHandler(member.name, st, args \o member.args)
    [] OTHER -> Raise(st, "TypeError")

RECURSIVE KeyBind_call(_, _, _)
\* KeyBind.__call__: the members in order; an exception ends the loop.
KeyBind_call(functions, st, args) ==
  IF functions = <<>> \/ st.error # NoError
    THEN st
    ELSE KeyBind_call(Tail(functions), CallMember(Head(functions), st, args), args)

\* ImageManager._add_keybind on a table value: [keybinds, error].
_add_keybind(table, keys, func, args) ==
  IF keys \notin DOMAIN table
    THEN [keybinds |-> [k \in DOMAIN table \cup {keys} |->
                          IF k = keys THEN KeyBind_init(func, args) ELSE table[k]],
          error |-> NoError]
    ELSE LET r == KeyBind_bind(table[keys], func, args)
         IN [keybinds |-> [table EXCEPT ![keys] = r.functions], error |-> r.error]

\* str(idx) of the numeric keys.
DigitKey(idx) == <<"1", "2", "3", "4", "5", "6", "7", "8", "9">>[idx]

\* The registrations ImageManager.__init__ makes, in order.
CtorBinds ==
  << <<"Ctrl+q", "close", <<>> >>,
     <<"Ctrl+w", "close", <<>> >>,
     <<"Escape", "_key_on_escape", <<>> >>,
     <<"Left", "_key_prev_image", <<>> >>,
     <<"Right", "_key_next_image", <<>> >>,
     <<"Up", "_key_prev_many", <<>> >>,
     <<"Down", "_key_next_many", <<>> >>,
     <<"Shift+r", "_key_rename_image", <<>> >>,
     <<"Shift+d", "_key_delete_image", <<>> >>,
     <<"Shift+f", "_key_find_image", <<>> >>,
     <<"Shift+g", "_key_go_to_image", <<>> >>,
     <<":", "_key_go_to_image", <<>> >>,
     <<"h", "_key_show_help", <<>> >>,
     <<"z", "_key_adjust", <<-1>> >>,
     <<"c", "_key_adjust", <<1>> >>,
     <<"t", "_key_toggle_text", <<>> >>,
     <<"l", "_key_label", <<>> >>,
     <<"=", "_key_toggle_zoom", <<>> >>,
     <<"/", "_key_enter_command", <<>> >>,
     <<"_", "_key_zoom_out", <<>> >>,
     <<"+", "_key_zoom_in", <<>> >> >>
  \o [idx \in 1..9 |-> <<DigitKey(idx), "_key_mark_image", <<idx>> >>]

EmptyTable == [k \in {} |-> <<>>]

RECURSIVE BindAll(_, _)
\* The keybind table after the registrations `binds`, made in order.
BindAll(table, binds) ==
  IF binds = <<>> THEN table
  ELSE LET b == Head(binds)
       IN BindAll(_add_keybind(table, b[1], b[2], b[3]).keybinds, Tail(binds))

RECURSIVE Requests(_, _)
\* key string -> the requests made for it, in order.
Requests(log, binds) ==
  IF binds = <<>> THEN log
  ELSE LET b == Head(binds)
           old == IF b[1] \in DOMAIN log THEN log[b[1]] ELSE <<>>
       IN Requests([k \in DOMAIN log \cup {b[1]} |->
                      IF k = b[1] THEN Append(old, <<b[2], b[3]>>) ELSE log[k]],
                   Tail(binds))

CtorKeybinds == BindAll(EmptyTable, CtorBinds)
CtorRequests == Requests(EmptyTable, CtorBinds)
(* ---------------------------------------------------------------- events *)
\* What the last event left to observe.
Observe(k, st, disp, wrn) ==
  /\ key' = k
  /\ invoked' = st.invoked
  /\ blocked' = st.blocked
  /\ error' = st.error
  /\ dispatched' = disp
  /\ warned' = wrn

\* The window after a handler has run.
Commit(st) ==
  /\ index' = st.index
  /\ mode' = st.mode
  /\ visible' = st.visible
  /\ focus' = st.focus
  /\ output' = st.output
  /\ closed' = st.closed

\* A key combination is pressed: its QAction triggers KeyBind.__call__().
KeyPress(k) ==
  /\ ~closed
  /\ k \in DOMAIN keybinds
  /\ LET st == KeyBind_call(keybinds[k], Window, <<>>)
     IN Commit(st) /\ Observe(k, st, Nothing, FALSE)
  /\ UNCHANGED <<count, undrawable, advance_many, text, keybinds, registered>>
  /\ UNCHANGED libvars

\* Faulty variant: ImageManager._on_command that reads the mode after the reset.
_on_command_late(st) ==
  LET s == _hide_textbox([st EXCEPT !.mode = MODE_NONE])
  IN [window |-> s, mode |-> s.mode, warned |-> TRUE, text |-> text]

\* Faulty variant: ImageManager._on_command that raises on an invalid mode.
_on_command_raising(st) ==
  LET s == _hide_textbox([st EXCEPT !.mode = MODE_NONE])
  IN [window |-> IF st.mode = MODE_NONE THEN Raise(s, "ValueError") ELSE s,
      mode |-> st.mode, warned |-> FALSE, text |-> text]

\* ImageManager._on_command: the window after it, the captured mode, whether
\* the else branch logged its warning, and the text left in the input box
\* (text() reads the box and nothing clears it).
_on_command(st) ==
  LET m == st.mode
      s == _hide_textbox([st EXCEPT !.mode = MODE_NONE])
  IN [window |-> s,
      mode |-> m,
      warned |-> m \notin {MODE_RENAME, MODE_GOTO, MODE_SET_IMAGE, MODE_LABEL,
                           MODE_COMMAND},
      text |-> text]

\* returnPressed is emitted: the slot _on_command runs.
OnCommand ==
  /\ ~closed
  /\ LET r == _on_command(Window)
     IN /\ Commit(r.window)
        /\ text' = r.text
        /\ Observe(Nothing, r.window, r.mode, r.warned)
  /\ UNCHANGED <<count, undrawable, advance_many, keybinds, registered>>
  /\ UNCHANGED libvars

\* Characters the user types.
Chars == {"a"}

\* The user types a character into the focused input box.
TypeText(c) ==
  /\ ~closed
  /\ focus
  /\ Len(text) < MaxText
  /\ text' = Append(text, c)
  /\ Observe(Nothing, Window, Nothing, FALSE)
  /\ UNCHANGED <<count, undrawable, advance_many, index, mode, visible, focus,
                 output, closed, keybinds, registered>>
  /\ UNCHANGED libvars

\* The visible input box loses the keyboard focus.
FocusOut ==
  /\ ~closed
  /\ visible /\ focus
  /\ focus' = FALSE
  /\ Observe(Nothing, Window, Nothing, FALSE)
  /\ UNCHANGED <<count, undrawable, advance_many, index, mode, visible, text,
                 output, closed, keybinds, registered>>
  /\ UNCHANGED libvars

\* The visible input box is given the keyboard focus again.
FocusIn ==
  /\ ~closed
  /\ visible /\ ~focus
  /\ focus' = TRUE
  /\ Observe(Nothing, Window, Nothing, FALSE)
  /\ UNCHANGED <<count, undrawable, advance_many, index, mode, visible, text,
                 output, closed, keybinds, registered>>
  /\ UNCHANGED libvars

(* --------------------------------------------------------- construction *)
\* Advance-many amounts handed to the constructor: a small one and the default.
AdvanceAmounts == {2, ADVANCE_MANY_AMOUNT}

\* Image sequences: a length and the images that cannot be drawn (none, or the
\* last one). The first image can be, or the constructor's set_index(0) raises.
WindowInit ==
  /\ count \in 1..MaxImages
  /\ undrawable \in {{}} \cup {{i} : i \in {count - 1} \ {0}}
  /\ advance_many \in AdvanceAmounts
  /\ index = 0
  /\ mode = MODE_NONE
  /\ visible = FALSE
  /\ focus = FALSE
  /\ text = <<>>
  /\ output = <<>>
  /\ closed = FALSE
  /\ keybinds = CtorKeybinds
  /\ registered = CtorRequests
  /\ key = Nothing
  /\ invoked = <<>>
  /\ blocked = FALSE
  /\ dispatched = Nothing
  /\ warned = FALSE
  /\ error = NoError

\* ImageDrawWidget.__init__: a fresh Handles, no text objects; _current_frame
\* is not assigned before the first video frame arrives.
WidgetInit ==
  /\ _id = 0
  /\ _text_objects = {}
  /\ _current_frame = FALSE
  /\ issued = <<>>
  /\ cleared = [handles |-> {}, id |-> -1]
  /\ raised = NoError

\* No call of iterate_from is looked at.
NotIterated == [done |-> FALSE, yielded |-> <<>>, error |-> NoError]
IterIdle ==
  /\ sequence = <<>>
  /\ start_index = 0
  /\ iterated = NotIterated

\* No call of format_size is looked at.
NotFormatted ==
  [done |-> FALSE, exponent |-> 0, whole |-> 0, hundredths |-> 0, more |-> FALSE,
   prefix |-> "", suffix |-> "", text |-> Nothing]
FormatIdle ==
  /\ num_bytes = <<>>
  /\ places = 2
  /\ base = 2
  /\ formatted = NotFormatted

\* No call of get_files or gather_images is looked at.
NotGot ==
  [called |-> FALSE, entry_list |-> <<>>, recurse_max |-> 0, soft_errors |-> FALSE,
   returned |-> FALSE, files |-> <<>>, error |-> NoError]
NotGathered ==
  [called |-> FALSE, image_list |-> <<>>, file_list |-> <<>>, recurse |-> FALSE,
   soft_errors |-> FALSE, returned |-> FALSE, files |-> <<>>, error |-> NoError]
GatherIdle ==
  /\ missing = {}
  /\ got = NotGot
  /\ gathered = NotGathered

\* Neither main nor a construction of the window is looked at.
NotStarted ==
  [by |-> Nothing, images |-> <<>>, gathered |-> FALSE, window |-> FALSE,
   shown |-> FALSE, index |-> 0, count |-> 0, error |-> NoError, status |-> -1]
StartIdle == startup = NotStarted

\* No call of interpret_amount is looked at.
NotInterpreted ==
  [called |-> FALSE, kind |-> "None", n |-> 0, minval |-> 0, maxval |-> 0,
   astype |-> "float", result |-> 0, error |-> NoError]
AmountIdle == amount = NotInterpreted

\* The state outside the window when only the window is looked at.
LibInit ==
  WidgetInit /\ IterIdle /\ FormatIdle /\ GatherIdle /\ StartIdle /\ AmountIdle

Init == WindowInit /\ LibInit

Next ==
  \/ \E k \in DOMAIN keybinds : KeyPress(k)
  \/ OnCommand
  \/ \E c \in Chars : TypeText(c)
  \/ FocusOut
  \/ FocusIn

Spec == Init /\ [][Next]_vars

(* ------------------------------------------------- later registrations *)
\* Keys, handlers and bound arguments of the registrations made on a window.
BindKeys == {"x"}
BindRequests == {<<"_key_next_image", <<>> >>, <<"_key_label", <<>> >>,
                 <<"_key_mark_image", <<3>> >>}

\* Number of registrations made after construction.
LaterBinds ==
  LET n[K \in SUBSET DOMAIN registered] ==
        IF K = {} THEN 0
        ELSE LET k == CHOOSE x \in K : TRUE IN Len(registered[k]) + n[K \ {k}]
  IN n[DOMAIN registered] - Len(CtorBinds)

\* self._add_keybind(keys, func, *args) is called on the window.
AddKeybind(keys, func, args) ==
  /\ ~closed
  /\ LaterBinds < MaxBinds
  /\ LET r == _add_keybind(keybinds, keys, func, args)
         old == IF keys \in DOMAIN registered THEN registered[keys] ELSE <<>>
     IN /\ keybinds' = r.keybinds
        /\ registered' = [k \in DOMAIN registered \cup {keys} |->
                            IF k = keys THEN Append(old, <<func, args>>)
                            ELSE registered[k]]
        /\ Observe(Nothing, Raise(Window, r.error), Nothing, FALSE)
  /\ UNCHANGED <<count, undrawable, advance_many, index, mode, visible, focus,
                 text, output, closed>>
  /\ UNCHANGED libvars

InitBind ==
  /\ Init
  /\ count = BindImages
  /\ undrawable = {}
  /\ advance_many = ADVANCE_MANY_AMOUNT

NextBind ==
  \/ \E k \in DOMAIN keybinds : KeyPress(k)
  \/ \E k \in BindKeys, r \in BindRequests : AddKeybind(k, r[1], r[2])

SpecBind == InitBind /\ [][NextBind]_vars
(* ------------------------------------------- entries of several callables *)
\* Most callables handed to one KeyBind.
MaxMembers == 2

\* Handlers handed to KeyBind as its functions.
CallFuncs == {"_key_next_image", "_key_label", "_key_adjust"}

\* Sequences of one to MaxMembers handlers.
FuncLists == UNION {[1..n -> CallFuncs] : n \in 1..MaxMembers}

\* KeyBind.__init__(keys, *functions) handed callables only.
KeyBind_init_functions(functions) ==
  [i \in 1..Len(functions) |-> Func(functions[i])]

\* self._add_keybind(keys, f, g, ...) with an unseen key: the new branch makes
\* KeyBind(keys, f, g, ...), an entry of several callables.
NewKeyBind(keys, functions) ==
  /\ ~closed
  /\ keys \notin DOMAIN keybinds
  /\ keybinds' = [k \in DOMAIN keybinds \cup {keys} |->
                    IF k = keys THEN KeyBind_init_functions(functions)
                    ELSE keybinds[k]]
  /\ registered' = [k \in DOMAIN registered \cup {keys} |->
                      IF k = keys THEN <<<<Head(functions), Tail(functions)>>>>
                      ELSE registered[k]]
  /\ Observe(Nothing, Window, Nothing, FALSE)
  /\ UNCHANGED <<count, undrawable, advance_many, index, mode, visible, focus,
                 text, output, closed>>
  /\ UNCHANGED libvars

InitCall ==
  /\ Init
  /\ count = BindImages
  /\ advance_many = ADVANCE_MANY_AMOUNT

NextCall ==
  \/ \E k \in DOMAIN keybinds : KeyPress(k)
  \/ \E k \in BindKeys, fs \in FuncLists : NewKeyBind(k, fs)

SpecCall == InitCall /\ [][NextCall]_vars

(* ------------------------------------------------- handles of overlay text *)
\* Number of add_text calls.
MaxHandles == 5

\* Faulty variant: Handles.next that hands out the value before the increment.
Handles_next_stale(id) ==
  [id |-> id + 1, handle |-> id]

\* Handles.next: the new _id and the value returned.
Handles_next(id) ==
  [id |-> id + 1, handle |-> id + 1]

\* ImageDrawWidget.redraw: reads self._current_frame, which does not exist
\* before the first frame.
Widget_redraw == IF _current_frame THEN NoError ELSE "AttributeError"

\* ImageDrawWidget.add_text: takes the next handle and returns it; nothing is
\* stored in _text_objects.
AddText ==
  /\ _id < MaxHandles
  /\ LET r == Handles_next(_id)
     IN /\ _id' = r.id
        /\ issued' = Append(issued, r.handle)
  /\ raised' = NoError
  /\ UNCHANGED <<_text_objects, _current_frame, cleared>>
  /\ UNCHANGED <<winvars, itvars, fsvars, gvars, startup, amount>>

\* ImageDrawWidget.clear_text(handles): removes the given handles (all of them
\* when none is given) from _text_objects, then redraws.
ClearText(handles) ==
  /\ LET to_remove == IF handles = {} THEN _text_objects ELSE handles
     IN _text_objects' = _text_objects \ to_remove
  /\ cleared' = [handles |-> handles, id |-> _id]
  /\ raised' = Widget_redraw
  /\ UNCHANGED <<_id, _current_frame, issued>>
  /\ UNCHANGED <<winvars, itvars, fsvars, gvars, startup, amount>>

\* ImageDrawWidget._on_frame_changed: the video sink delivers a frame.
OnFrameChanged ==
  /\ _current_frame' = TRUE
  /\ raised' = NoError
  /\ UNCHANGED <<_id, _text_objects, issued, cleared>>
  /\ UNCHANGED <<winvars, itvars, fsvars, gvars, startup, amount>>

InitHandles ==
  /\ WindowInit
  /\ count = 1
  /\ advance_many = ADVANCE_MANY_AMOUNT
  /\ WidgetInit
  /\ IterIdle
  /\ FormatIdle
  /\ GatherIdle
  /\ StartIdle
  /\ AmountIdle

NextHandles ==
  \/ AddText
  \/ \E hs \in SUBSET (1.._id) : ClearText(hs)
  \/ OnFrameChanged

SpecHandles == InitHandles /\ [][NextHandles]_vars

(* ----------------------------------------------------------- iterate_from *)
\* Longest sequence iterated over; its elements are 1..MaxLen.
MaxLen == 3
\* How far beyond the sequence's length a start index is tried.
StartSlack == 2

RECURSIVE YieldRange(_, _, _)
\* `while curr < end: yield sequence[curr]; curr += 1` (indices from 0).
YieldRange(seq, curr, end) ==
  IF curr < end
    THEN <<seq[curr + 1]>> \o YieldRange(seq, curr + 1, end)
    ELSE <<>>

\* Faulty variant: iterate_from whose second loop runs up to the argument as
\* given, not as adjusted.
iterate_from_unadjusted(seq, start) ==
  LET length == Len(seq)
      curr == IF start < 0 THEN start + length ELSE start
  IN IF ~(0 <= curr /\ curr < length)
       THEN [yielded |-> <<>>, error |-> "AssertionError"]
       ELSE [yielded |-> YieldRange(seq, curr, length) \o YieldRange(seq, 0, start),
             error |-> NoError]

\* Faulty variant: iterate_from that wraps the start index into the sequence.
iterate_from_wrapping(seq, start) ==
  LET length == Len(seq)
  IN IF length = 0
       THEN [yielded |-> <<>>, error |-> "AssertionError"]
       ELSE [yielded |-> YieldRange(seq, start % length, length)
                         \o YieldRange(seq, 0, start % length),
             error |-> NoError]

\* iterate_from, run to its end: the elements yielded and the exception, if
\* any. The assertion comes before the first yield.
iterate_from(seq, start) ==
  LET length == Len(seq)
      start_adj == IF start < 0 THEN start + length ELSE start
  IN IF ~(0 <= start_adj /\ start_adj < length)
       THEN [yielded |-> <<>>, error |-> "AssertionError"]
       ELSE [yielded |-> YieldRange(seq, start_adj, length)
                         \o YieldRange(seq, 0, start_adj),
             error |-> NoError]

\* list(iterate_from(sequence, start_index)) is evaluated.
Iterate ==
  /\ ~iterated.done
  /\ LET r == iterate_from(sequence, start_index)
     IN iterated' = [done |-> TRUE, yielded |-> r.yielded, error |-> r.error]
  /\ UNCHANGED <<sequence, start_index>>
  /\ UNCHANGED <<winvars, hvars, fsvars, gvars, startup, amount>>

\* The window's variables when no window is looked at.
WindowIdle ==
  /\ WindowInit
  /\ count = 1
  /\ advance_many = ADVANCE_MANY_AMOUNT

InitIter ==
  /\ WindowIdle
  /\ WidgetInit
  /\ sequence \in UNION {[1..n -> 1..MaxLen] : n \in 0..MaxLen}
  /\ start_index \in (-(MaxLen + StartSlack))..(MaxLen + StartSlack)
  /\ iterated = NotIterated
  /\ FormatIdle
  /\ GatherIdle
  /\ StartIdle
  /\ AmountIdle

NextIter == Iterate

SpecIter == InitIter /\ [][NextIter]_vars

(* ------------------------------------------------------------ format_size *)
\* A byte count is held as its digits in base `scale` (1024 or 1000), lowest
\* first, so that counts up to 1024**6 and beyond stay within the integers of
\* TLC; float(num_bytes) scaled down `exponent` times is then
\*   sum of num_bytes[i] * scale^(i - 1 - exponent).
\* The digits tried are drawn from DigitChoices: with them no count lies so
\* near a rounding boundary that the error of float(num_bytes) at or above
\* 2**53, or of a division by 1000.0, changes the rounded number. The
\* unrounded number (places=None) is tried for counts below the P digit only,
\* where the float holds the count exactly.

\* How many digits beyond the P digit a byte count may have.
MaxOverflowDigits == 1

\* places=None
PlacesNone == -1

prefixes == <<"", "K", "M", "G", "T", "P">>

ScaleOf(b) == IF b = 10 THEN 1000 ELSE 1024

DigitChoices(scale) == {0, 1, scale - 1}

\* `value >= scale`, for the value scaled down `exponent` times.
AtLeastScale(digits, exponent) ==
  \E i \in (exponent + 2)..Len(digits) : digits[i] # 0

RECURSIVE ScaleDown(_, _)
\* `while value >= scale and exponent+1 < len(prefixes): value /= scale;
\* exponent += 1`: the exponent it ends with.
ScaleDown(digits, exponent) ==
  IF AtLeastScale(digits, exponent) /\ exponent + 1 < Len(prefixes)
    THEN ScaleDown(digits, exponent + 1)
    ELSE exponent

RECURSIVE WholePart(_, _, _)
\* The integer part of the value: the digits above position `exponent`.
WholePart(digits, scale, exponent) ==
  IF exponent >= Len(digits)
    THEN 0
    ELSE digits[exponent + 1] + scale * WholePart(digits, scale, exponent + 1)

RECURSIVE FractionTimes100(_, _, _)
\* 100 times the fraction held in digits 1..j, as q + (a + r) / scale with
\* q its integer part, a in 0..scale-1 and 0 <= r < 1; nz tells whether r > 0.
FractionTimes100(digits, scale, j) ==
  IF j = 0
    THEN [q |-> 0, a |-> 0, nz |-> FALSE]
    ELSE LET lower == FractionTimes100(digits, scale, j - 1)
             t == 100 * digits[j] + lower.q
         IN [q |-> t \div scale, a |-> t % scale, nz |-> lower.a # 0 \/ lower.nz]

\* round() of q + (a + r) / scale to an integer: to the nearest, a tie to the
\* even one.
RoundHalfEven(q, a, nz, scale) ==
  LET twice == 2 * a
  IN IF twice > scale \/ (twice = scale /\ nz) THEN q + 1
     ELSE IF twice = scale /\ q % 2 = 1 THEN q + 1
     ELSE q

\* str() of a float with at most two decimals, and of an int.
FloatText(whole, hundredths) ==
  ToString(whole) \o "." \o
    (IF hundredths % 10 = 0 THEN ToString(hundredths \div 10)
     ELSE IF hundredths < 10 THEN "0" \o ToString(hundredths)
     ELSE ToString(hundredths))

\* Faulty variant: format_size with suffix "iB" for every count in base 10.
format_size_always_iB(digits, pl, b) ==
  LET scale == ScaleOf(b)
      suffix == IF b = 10 THEN "iB" ELSE "B"
      exponent == ScaleDown(digits, 0)
      whole == WholePart(digits, scale, exponent)
      f == FractionTimes100(digits, scale, exponent)
      top == IF exponent = 0 THEN 0 ELSE digits[exponent]
      below == \E i \in 1..(exponent - 1) : digits[i] # 0
      hq == RoundHalfEven(f.q, f.a, f.nz, scale)
      rounded ==
        IF pl = PlacesNone
          THEN [whole |-> whole, hundredths |-> f.q, more |-> f.a # 0 \/ f.nz]
        ELSE IF pl = 0
          THEN [whole |-> RoundHalfEven(whole, top, below, scale),
                hundredths |-> 0, more |-> FALSE]
        ELSE IF hq = 100
          THEN [whole |-> whole + 1, hundredths |-> 0, more |-> FALSE]
          ELSE [whole |-> whole, hundredths |-> hq, more |-> FALSE]
      num == IF rounded.more THEN Nothing
             ELSE IF pl = 0 THEN ToString(rounded.whole)
             ELSE FloatText(rounded.whole, rounded.hundredths)
      unit == prefixes[exponent + 1] \o suffix
  IN [exponent |-> exponent, whole |-> rounded.whole,
      hundredths |-> rounded.hundredths, more |-> rounded.more,
      prefix |-> prefixes[exponent + 1], suffix |-> suffix,
      text |-> IF rounded.more THEN Nothing ELSE num \o " " \o unit]

\* format_size with the default format "{num} {suffix}". The number is
\* whole + hundredths/100, plus a remainder below 1/100 when `more` (only for
\* places=None, whose text is then not rendered).
format_size(digits, pl, b) ==
  LET scale == ScaleOf(b)
      suffix == IF b = 10 /\ AtLeastScale(digits, 0) THEN "iB" ELSE "B"
      exponent == ScaleDown(digits, 0)
      whole == WholePart(digits, scale, exponent)
      f == FractionTimes100(digits, scale, exponent)
      top == IF exponent = 0 THEN 0 ELSE digits[exponent]
      below == \E i \in 1..(exponent - 1) : digits[i] # 0
      hq == RoundHalfEven(f.q, f.a, f.nz, scale)
      rounded ==
        IF pl = PlacesNone
          THEN [whole |-> whole, hundredths |-> f.q, more |-> f.a # 0 \/ f.nz]
        ELSE IF pl = 0
          THEN [whole |-> RoundHalfEven(whole, top, below, scale),
                hundredths |-> 0, more |-> FALSE]
        ELSE IF hq = 100
          THEN [whole |-> whole + 1, hundredths |-> 0, more |-> FALSE]
          ELSE [whole |-> whole, hundredths |-> hq, more |-> FALSE]
      num == IF rounded.more THEN Nothing
             ELSE IF pl = 0 THEN ToString(rounded.whole)
             ELSE FloatText(rounded.whole, rounded.hundredths)
      unit == prefixes[exponent + 1] \o suffix
  IN [exponent |-> exponent, whole |-> rounded.whole,
      hundredths |-> rounded.hundredths, more |-> rounded.more,
      prefix |-> prefixes[exponent + 1], suffix |-> suffix,
      text |-> IF rounded.more THEN Nothing ELSE num \o " " \o unit]

\* format_size(num_bytes, places, base) is evaluated.
FormatSize ==
  /\ ~formatted.done
  /\ LET r == format_size(num_bytes, places, base)
     IN formatted' = [done |-> TRUE, exponent |-> r.exponent, whole |-> r.whole,
                      hundredths |-> r.hundredths, more |-> r.more,
                      prefix |-> r.prefix, suffix |-> r.suffix, text |-> r.text]
  /\ UNCHANGED <<num_bytes, places, base>>
  /\ UNCHANGED <<winvars, hvars, itvars, gvars, startup, amount>>

\* The byte counts tried: no digits for 0, else a highest digit that is not 0.
ByteCounts(scale) ==
  {ds \in UNION {[1..n -> DigitChoices(scale)] :
                   n \in 0..(Len(prefixes) + MaxOverflowDigits)} :
     ds = <<>> \/ ds[Len(ds)] # 0}

InitFormat ==
  /\ WindowIdle
  /\ WidgetInit
  /\ IterIdle
  /\ base \in {2, 10}
  /\ places \in {0, 2, PlacesNone}
  /\ num_bytes \in ByteCounts(ScaleOf(base))
  /\ places = PlacesNone => Len(num_bytes) < Len(prefixes)
  /\ formatted = NotFormatted
  /\ GatherIdle
  /\ StartIdle
  /\ AmountIdle

NextFormat == FormatSize

SpecFormat == InitFormat /\ [][NextFormat]_vars

(* ----------------------------------------------- get_files, gather_images *)
\* How many entries a call of get_files is given.
MaxEntries == 2
\* The largest depth bound tried; the deepest file of the tree is this deep.
MaxDepth == 3
\* How many list files a call of gather_images is given.
MaxListFiles == 1

\* The directory tree the calls run on: os.listdir of each directory, in the
\* order the platform lists it.
listdir ==
  [d \in {"a", "a/b", "a/b/c"} |->
     CASE d = "a"     -> <<"a/1", "a/b", "a/5">>
       [] d = "a/b"   -> <<"a/b/2", "a/b/c">>
       [] d = "a/b/c" -> <<"a/b/c/3">>]

Dirs == DOMAIN listdir
Files == {"a/1", "a/5", "a/b/2", "a/b/c/3", "f"}
\* Neither file nor directory (a socket, a device).
Others == {"s"}
\* The paths there are; "x" names nothing.
Paths == Dirs \cup Files \cup Others
\* The paths that may be gone: a file given as argument, and a file and a
\* directory that are listed but do not exist (dangling symbolic links).
Breakable == {"f", "a/1", "a/b"}
\* The entries a call may be given.
Entries == {"a", "a/b", "f", "s", "x"}

\* The file system as a call sees it.
OS == [missing |-> missing, listdir |-> listdir]

exists(os, entry) == entry \in Paths \ os.missing
isdir(os, entry) == exists(os, entry) /\ entry \in DOMAIN os.listdir

RECURSIVE _get_files_of_deeper(_, _, _, _, _)
RECURSIVE _get_children_deeper(_, _, _, _, _, _)
\* Faulty variant: _get_files_of that descends when depth <= depth_max.
_get_files_of_deeper(os, entry, depth, depth_max, soft_errors) ==
  IF ~exists(os, entry)
    THEN [files |-> <<>>,
          error |-> IF soft_errors THEN NoError ELSE "FileNotFoundError"]
  ELSE IF isdir(os, entry)
    THEN IF depth_max = -1 \/ depth <= depth_max
           THEN _get_children_deeper(os, os.listdir[entry], 1, depth + 1,
                                     depth_max, soft_errors)
           ELSE [files |-> <<>>, error |-> NoError]
  ELSE [files |-> <<entry>>, error |-> NoError]
_get_children_deeper(os, children, i, depth, depth_max, soft_errors) ==
  IF i > Len(children)
    THEN [files |-> <<>>, error |-> NoError]
    ELSE LET first == _get_files_of_deeper(os, children[i], depth, depth_max,
                                           soft_errors)
             rest == _get_children_deeper(os, children, i + 1, depth, depth_max,
                                          soft_errors)
         IN IF first.error # NoError
              THEN first
              ELSE [files |-> first.files \o rest.files, error |-> rest.error]

RECURSIVE _get_files_of(_, _, _, _, _)
RECURSIVE _get_children(_, _, _, _, _, _)
\* _get_files_of, run to its end: the entries yielded and the exception, if
\* any; the entries yielded before an exception are in `files` too.
_get_files_of(os, entry, depth, depth_max, soft_errors) ==
  IF ~exists(os, entry)
    THEN [files |-> <<>>,
          error |-> IF soft_errors THEN NoError ELSE "FileNotFoundError"]
  ELSE IF isdir(os, entry)
    THEN IF depth_max = -1 \/ depth + 1 <= depth_max
           THEN _get_children(os, os.listdir[entry], 1, depth + 1, depth_max,
                              soft_errors)
           ELSE [files |-> <<>>, error |-> NoError]
  ELSE [files |-> <<entry>>, error |-> NoError]

\* `for child_name in os.listdir(entry): yield from _get_files_of(child, ...)`
\* from the i-th child on.
_get_children(os, children, i, depth, depth_max, soft_errors) ==
  IF i > Len(children)
    THEN [files |-> <<>>, error |-> NoError]
    ELSE LET first == _get_files_of(os, children[i], depth, depth_max, soft_errors)
             rest == _get_children(os, children, i + 1, depth, depth_max,
                                   soft_errors)
         IN IF first.error # NoError
              THEN first
              ELSE [files |-> first.files \o rest.files, error |-> rest.error]

RECURSIVE get_files_from(_, _, _, _, _)
\* `for entry in entry_list: results.extend(_get_files_of(entry, 0, ...))`
\* from the i-th entry on.
get_files_from(os, entry_list, i, recurse_max, soft_errors) ==
  IF i > Len(entry_list)
    THEN [files |-> <<>>, error |-> NoError]
    ELSE LET first == _get_files_of(os, entry_list[i], 0, recurse_max, soft_errors)
             rest == get_files_from(os, entry_list, i + 1, recurse_max, soft_errors)
         IN IF first.error # NoError
              THEN first
              ELSE [files |-> first.files \o rest.files, error |-> rest.error]

\* Faulty variant: get_files that returns what it has when an entry fails.
get_files_partial(os, entry_list, recurse_max, soft_errors) ==
  LET r == get_files_from(os, entry_list, 1, recurse_max, soft_errors)
  IN [returned |-> TRUE, files |-> r.files, error |-> NoError]

\* get_files: the list returned, or the exception raised with no list
\* returned.
get_files(os, entry_list, recurse_max, soft_errors) ==
  LET r == get_files_from(os, entry_list, 1, recurse_max, soft_errors)
  IN IF r.error # NoError
       THEN [returned |-> FALSE, files |-> <<>>, error |-> r.error]
       ELSE [returned |-> TRUE, files |-> r.files, error |-> NoError]

\* The list files there are and the lines of each; "nolist" cannot be read.
ListFileLines ==
  [f \in {"list1", "list2"} |->
     IF f = "list1" THEN <<"a/b", "f">> ELSE <<"x", "s">>]
ListFiles == DOMAIN ListFileLines \cup {"nolist"}

RECURSIVE read_file_list(_, _, _)
\* `for file_path in file_list: ... inputs.append(line)` from the i-th list
\* file on: the lines appended and the exception, if any.
read_file_list(file_list, i, soft_errors) ==
  IF i > Len(file_list)
    THEN [inputs |-> <<>>, error |-> NoError]
  ELSE IF file_list[i] \notin DOMAIN ListFileLines
    THEN IF soft_errors
           THEN read_file_list(file_list, i + 1, soft_errors)
           ELSE [inputs |-> <<>>, error |-> "IOError"]
  ELSE LET rest == read_file_list(file_list, i + 1, soft_errors)
       IN [inputs |-> ListFileLines[file_list[i]] \o rest.inputs,
           error |-> rest.error]

\* Faulty variant: gather_images that puts the lines of the list files before
\* the arguments.
gather_images_lists_first(os, image_list, file_list, recurse, soft_errors) ==
  LET lines == read_file_list(file_list, 1, soft_errors)
      recurse_max == IF recurse THEN -1 ELSE 1
  IN IF lines.error # NoError
       THEN [returned |-> FALSE, files |-> <<>>, error |-> lines.error]
       ELSE get_files(os, lines.inputs \o image_list, recurse_max, soft_errors)

\* Faulty variant: gather_images that does not look into directories unless
\* the recurse flag is given.
gather_images_flat(os, image_list, file_list, recurse, soft_errors) ==
  LET lines == read_file_list(file_list, 1, soft_errors)
      recurse_max == IF recurse THEN -1 ELSE 0
  IN IF lines.error # NoError
       THEN [returned |-> FALSE, files |-> <<>>, error |-> lines.error]
       ELSE get_files(os, image_list \o lines.inputs, recurse_max, soft_errors)

\* gather_images: the images returned, or the exception raised.
gather_images(os, image_list, file_list, recurse, soft_errors) ==
  LET lines == read_file_list(file_list, 1, soft_errors)
      recurse_max == IF recurse THEN -1 ELSE 1
  IN IF lines.error # NoError
       THEN [returned |-> FALSE, files |-> <<>>, error |-> lines.error]
       ELSE get_files(os, image_list \o lines.inputs, recurse_max, soft_errors)

\* get_files(entry_list, recurse_max, soft_errors) is called, once in a run.
GetFiles(entry_list, recurse_max, soft_errors) ==
  /\ ~got.called /\ ~gathered.called
  /\ LET r == get_files(OS, entry_list, recurse_max, soft_errors)
     IN got' = [called |-> TRUE, entry_list |-> entry_list,
                recurse_max |-> recurse_max, soft_errors |-> soft_errors,
                returned |-> r.returned, files |-> r.files, error |-> r.error]
  /\ gathered' = NotGathered
  /\ UNCHANGED missing
  /\ UNCHANGED <<winvars, hvars, itvars, fsvars, startup, amount>>

\* gather_images(image_list, file_list, recurse, soft_errors) is called, once
\* in a run.
GatherImages(image_list, file_list, recurse, soft_errors) ==
  /\ ~got.called /\ ~gathered.called
  /\ LET r == gather_images(OS, image_list, file_list, recurse, soft_errors)
     IN gathered' = [called |-> TRUE, image_list |-> image_list,
                     file_list |-> file_list, recurse |-> recurse,
                     soft_errors |-> soft_errors,
                     returned |-> r.returned, files |-> r.files, error |-> r.error]
  /\ got' = NotGot
  /\ UNCHANGED missing
  /\ UNCHANGED <<winvars, hvars, itvars, fsvars, startup, amount>>

SeqsUpTo(S, n) == UNION {[1..k -> S] : k \in 0..n}

InitGather ==
  /\ WindowIdle
  /\ WidgetInit
  /\ IterIdle
  /\ FormatIdle
  /\ missing \in SUBSET Breakable
  /\ got = NotGot
  /\ gathered = NotGathered
  /\ StartIdle
  /\ AmountIdle

NextGather ==
  \/ \E entry_list \in SeqsUpTo(Entries, MaxEntries),
        recurse_max \in (-1)..MaxDepth, soft_errors \in BOOLEAN :
       GetFiles(entry_list, recurse_max, soft_errors)
  \/ \E image_list \in SeqsUpTo(Entries, MaxEntries),
        file_list \in SeqsUpTo(ListFiles, MaxListFiles),
        recurse \in BOOLEAN, soft_errors \in BOOLEAN :
       GatherImages(image_list, file_list, recurse, soft_errors)

SpecGather == InitGather /\ [][NextGather]_vars

(* ------------------------------------------------------------------- main *)
\* The exit status of ArgumentParser.error.
EXIT_USAGE == 2
\* The exit status of SystemExit(1) and of an uncaught exception.
EXIT_FAILURE == 1

\* The paths whose media type may be unknown to mimetypes.guess_type.
UnknownTypes == {{}, {"f"}}

\* ImageManager.__init__(images): the window it leaves, `error` set when it
\* raises. `unknown` holds the paths redraw() raises for.
ImageManager_init(images, unknown) ==
  LET st == [count |-> Len(images),
             undrawable |-> {i \in 0..(Len(images) - 1) : images[i + 1] \in unknown},
             advance_many |-> ADVANCE_MANY_AMOUNT, index |-> 0, mode |-> MODE_NONE,
             visible |-> FALSE, focus |-> FALSE, output |-> <<>>,
             closed |-> FALSE, invoked |-> <<>>, blocked |-> FALSE,
             error |-> NoError]
  IN set_index(st, 0)

\* ImageManager(images) is called on its own, once in a run.
Construct(images, unknown) ==
  /\ startup = NotStarted
  /\ LET st == ImageManager_init(images, unknown)
     IN startup' = [by |-> "ImageManager", images |-> images, gathered |-> FALSE,
                    window |-> st.error = NoError, shown |-> FALSE,
                    index |-> st.index, count |-> st.count,
                    error |-> st.error, status |-> -1]
  /\ UNCHANGED <<winvars, hvars, itvars, fsvars, gvars, amount>>

\* main() past the argument parsing: gather the images, leave with a usage
\* error when there are none, else construct the window and show it. Once in
\* a run.
Main(image_list, file_list, recurse, soft_errors, unknown) ==
  /\ startup = NotStarted
  /\ LET g == gather_images(OS, image_list, file_list, recurse, soft_errors)
         st == ImageManager_init(g.files, unknown)
     IN startup' =
          IF ~g.returned
            THEN [by |-> "main", images |-> <<>>, gathered |-> FALSE,
                  window |-> FALSE, shown |-> FALSE, index |-> 0, count |-> 0,
                  error |-> g.error, status |-> EXIT_FAILURE]
          ELSE IF g.files = <<>>
            THEN [by |-> "main", images |-> g.files, gathered |-> TRUE,
                  window |-> FALSE, shown |-> FALSE, index |-> 0, count |-> 0,
                  error |-> "No images specified", status |-> EXIT_USAGE]
          ELSE IF st.error # NoError
            THEN [by |-> "main", images |-> g.files, gathered |-> TRUE,
                  window |-> FALSE, shown |-> FALSE, index |-> st.index,
                  count |-> st.count, error |-> st.error, status |-> EXIT_FAILURE]
          ELSE [by |-> "main", images |-> g.files, gathered |-> TRUE,
                window |-> TRUE, shown |-> TRUE, index |-> st.index,
                count |-> st.count, error |-> NoError, status |-> -1]
  /\ UNCHANGED <<winvars, hvars, itvars, fsvars, gvars, amount>>

InitMain ==
  /\ WindowIdle
  /\ WidgetInit
  /\ IterIdle
  /\ FormatIdle
  /\ missing \in SUBSET Breakable
  /\ got = NotGot
  /\ gathered = NotGathered
  /\ startup = NotStarted
  /\ AmountIdle

NextMain ==
  \/ \E image_list \in SeqsUpTo(Entries, MaxEntries),
        file_list \in SeqsUpTo(ListFiles, MaxListFiles),
        recurse \in BOOLEAN, soft_errors \in BOOLEAN, unknown \in UnknownTypes :
       Main(image_list, file_list, recurse, soft_errors, unknown)
  \/ \E images \in SeqsUpTo(Files, MaxEntries), unknown \in UnknownTypes :
       Construct(images, unknown)

SpecMain == InitMain /\ [][NextMain]_vars

(* ------------------------------------------------------- interpret_amount *)
\* Numbers are held times 100, so that the halves and quarters a percentage
\* gives are integers: `result` 1250 is 12.5.

\* The values tried: None, "p%" for the p of Percents, and the decimal strings
\* of Plains (times 100: 1250 is "12.5").
Percents == {-50, 0, 25, 50, 100, 150}
Plains == {-500, 0, 1250, 5000, 10000, 50000}
Values ==
  {[kind |-> "None", n |-> 0]}
  \cup {[kind |-> "percent", n |-> p] : p \in Percents}
  \cup {[kind |-> "plain", n |-> n] : n \in Plains}
\* The bounds tried.
MinVals == {0, 10}
MaxVals == {100, 210}

\* int(x) of a float: the fraction is cut off, towards zero.
ToInt(x100) ==
  IF x100 >= 0 THEN (x100 \div 100) * 100 ELSE -(((-x100) \div 100) * 100)

\* astype(result) for a float result
AsType(astype, x100) == IF astype = "int" THEN ToInt(x100) ELSE x100

\* astype(value) for a decimal string: int() takes no fraction.
FromString(astype, n100) ==
  IF astype = "int" /\ n100 % 100 # 0
    THEN [result |-> 0, error |-> "ValueError"]
    ELSE [result |-> n100, error |-> NoError]

\* interpret_amount: the number returned (times 100) or the exception.
interpret_amount(value, minval, maxval, astype) ==
  IF value.kind = "None"
    THEN [result |-> maxval * 100, error |-> NoError]
  ELSE IF value.kind = "percent"
    THEN [result |-> AsType(astype, value.n * (maxval - minval) + minval * 100),
          error |-> NoError]
  ELSE FromString(astype, value.n)

\* interpret_amount(value, minval, maxval, astype) is called, once in a run.
InterpretAmount(value, minval, maxval, astype) ==
  /\ ~amount.called
  /\ LET r == interpret_amount(value, minval, maxval, astype)
     IN amount' = [called |-> TRUE, kind |-> value.kind, n |-> value.n,
                   minval |-> minval, maxval |-> maxval, astype |-> astype,
                   result |-> r.result, error |-> r.error]
  /\ UNCHANGED <<winvars, hvars, itvars, fsvars, gvars, startup>>

InitAmount ==
  /\ WindowIdle
  /\ WidgetInit
  /\ IterIdle
  /\ FormatIdle
  /\ GatherIdle
  /\ StartIdle
  /\ amount = NotInterpreted

NextAmount ==
  \E value \in Values, minval \in MinVals, maxval \in MaxVals,
     astype \in {"int", "float"} :
    InterpretAmount(value, minval, maxval, astype)

SpecAmount == InitAmount /\ [][NextAmount]_vars

(* ---------------------------------------------------------------- claims *)
\* Keys of the four advance handlers and the amount each advances by.
AdvanceKeys == {"Left", "Right", "Up", "Down"}
AdvanceBy(k) ==
  CASE k = "Right" -> 1
    [] k = "Left" -> -1
    [] k = "Down" -> advance_many
    [] k = "Up" -> -advance_many

\* Keys of the mode-entry handlers: rename, find, go-to (two keys), label, command.
ModeEntryKeys == {"Shift+r", "Shift+f", "Shift+g", ":", "l", "/"}

\* Keys of the motion and action handlers: next, prev, next-many, prev-many,
\* delete, mark 1-9, zoom, adjust, toggle.
MotionKeys ==
  AdvanceKeys \cup {"Shift+d", "z", "c", "t", "=", "_", "+"}
  \cup {DigitKey(i) : i \in 1..9}

\* C1: for a window built from a non-empty image sequence of length n, after
\* any sequence of key events and text submissions the current index is an
\* integer in [0, n).
C1_IndexInRange == index \in 0..(count - 1)

\* C1 witness: a prev key has wrapped the index of a longer sequence to its end.
C1_Witness ==
  key = "Left" /\ ~blocked /\ count >= 2 /\ index = count - 1

\* C2: with the input box unfocused, an advance by k sets the index to
\* (index + k) mod n with a non-negative result: next at n-1 gives 0, prev at 0
\* gives n-1, and for n = 5, index 0, N = 10 next-many gives 0.
C2_AdvanceWraps ==
  [][\A k \in AdvanceKeys :
       (key' = k /\ ~focus) =>
         /\ index' = (index + AdvanceBy(k)) % count
         /\ index' >= 0
         /\ (k = "Right" /\ index = count - 1) => index' = 0
         /\ (k = "Left" /\ index = 0) => index' = count - 1
         /\ (k = "Down" /\ count = 5 /\ index = 0 /\ advance_many = 10)
              => index' = 0]_vars

\* C2 witness: next-many with amount 10 on five images has come back to index 0.
C2_Witness ==
  key = "Down" /\ ~blocked /\ count = 5 /\ advance_many = 10 /\ index = 0

\* C3: pressing a mode-entry key while the input box has keyboard focus is a
\* no-op: mode, input box visibility and focus, and index are unchanged.
C3_ModeEntryBlocked ==
  [][\A k \in ModeEntryKeys :
       (key' = k /\ focus) => UNCHANGED <<mode, visible, focus, index>>]_vars

\* C3 witness: the rename key was pressed and blocked while go-to was pending.
C3_Witness ==
  key = "Shift+r" /\ blocked /\ mode = MODE_GOTO /\ focus

\* C4: pressing a motion or action key while the input box has keyboard focus
\* leaves the current index, the mode and the output action log unchanged.
C4_MotionBlocked ==
  [][\A k \in MotionKeys :
       (key' = k /\ focus) => UNCHANGED <<index, mode, output>>]_vars

\* C4 witness: the next key was pressed and blocked on a sequence it could move in.
C4_Witness ==
  key = "Right" /\ blocked /\ focus /\ count >= 2

\* C5: Escape always resets the mode to NONE; if the input box has focus or is
\* visible it is hidden and the window stays open; Escape closes the window
\* only when the input box had neither focus nor visibility.
C5_Escape ==
  [][key' = "Escape" =>
       /\ mode' = MODE_NONE
       /\ IF focus \/ visible
            THEN ~visible' /\ ~focus' /\ ~closed'
            ELSE closed']_vars

\* C5 witness: Escape has cancelled a pending input and left the window open.
C5_Witness ==
  key = "Escape" /\ ~closed /\ text # <<>> /\ ~visible

\* C6: after a text submission in any mode, the mode is NONE and the input box
\* is neither visible nor focused; the mode used for dispatch is the one that
\* was active at the moment of submission.
C6_Submission ==
  [][dispatched' # Nothing =>
       /\ mode' = MODE_NONE
       /\ ~visible' /\ ~focus'
       /\ dispatched' = mode]_vars

\* C6 witness: a label text has been submitted.
C6_Witness ==
  dispatched = MODE_LABEL /\ mode = MODE_NONE /\ ~visible /\ ~focus

\* C7: a text submission clears the input box text: after every submission the
\* input box text is empty.
C7_TextCleared ==
  dispatched # Nothing => text = <<>>

\* C8: a text submission that fires while the mode is NONE is a defensive no-op:
\* no error, and index, image sequence and output action log are unchanged;
\* only a warning is logged.
C8_SubmitInNone ==
  [][(dispatched' # Nothing /\ mode = MODE_NONE) =>
       /\ error' = NoError
       /\ warned'
       /\ UNCHANGED <<index, count, undrawable, output>>]_vars

\* C8 witness: a submission has fired in mode NONE and logged its warning.
C8_Witness ==
  dispatched = MODE_NONE /\ warned /\ error = NoError

\* The handler names of a sequence of (name, args) pairs.
Names(calls) == [i \in 1..Len(calls) |-> calls[i][1]]

\* C9: registering two independent actions under the same key combination and
\* then triggering that key invokes both actions, in registration order; the
\* second registration appends to the entry and does not drop the first.
C9_BothInvoked ==
  \A k \in DOMAIN registered :
    (/\ key = k
     /\ error = NoError
     /\ Len(registered[k]) >= 2
     /\ \A i \in 1..Len(registered[k]) : registered[k][i][2] = <<>>)
    => /\ Len(keybinds[k]) = Len(registered[k])
       /\ Names(invoked) = Names(registered[k])

\* C10: registering an action with bound arguments under a previously unseen
\* key creates an entry whose sole member is the action wrapped with those
\* arguments; triggering the key calls the action exactly once with them.
C10_SoleWrappedMember ==
  \A k \in DOMAIN registered :
    (key = k /\ Len(registered[k]) = 1 /\ registered[k][1][2] # <<>>)
    => /\ Len(keybinds[k]) = 1
       /\ keybinds[k][1].kind # "value"
       /\ invoked = <<registered[k][1]>>

\* C11: triggering a key invokes every member bound to it even when an earlier
\* member raises: an exception from one bound action does not keep the actions
\* after it from being invoked.
C11_AllInvoked ==
  \A k \in DOMAIN keybinds :
    (key = k /\ \A i \in 1..Len(keybinds[k]) : keybinds[k][i].kind # "value")
    => Len(invoked) = Len(keybinds[k])

\* C12: for every k in 1..9, pressing the numeric key k while the input box is
\* unfocused invokes the mark-image action exactly once with the integer
\* argument k, and raises no error.
C12_MarkInvokedWithNumber ==
  \A n \in 1..9 :
    (key = DigitKey(n) /\ ~blocked)
    => /\ invoked = << <<"_key_mark_image", <<n>> >> >>
       /\ error = NoError

\* C13: the k-th call to next() returns k; hence every issued handle is
\* strictly greater than all earlier ones and no handle value is issued twice,
\* also after the text object of an earlier handle was removed with clear_text.
C13_HandlesCount ==
  /\ \A k \in 1..Len(issued) : issued[k] = k
  /\ \A i, j \in 1..Len(issued) : i < j => issued[i] < issued[j]

\* C13 witness: a handle was issued after an earlier one was cleared.
C13_Witness ==
  /\ 1 \in cleared.handles
  /\ cleared.id >= 1
  /\ Len(issued) > cleared.id

\* Whether `out` is `seq` rotated to start at index r (from 0).
IsRotation(out, seq, r) ==
  /\ Len(out) = Len(seq)
  /\ \A i \in 1..Len(seq) : out[i] = seq[((r + i - 1) % Len(seq)) + 1]

\* Whether `out` holds every element as often as `seq` does.
SameElements(out, seq) ==
  \A x \in 1..MaxLen :
    Cardinality({i \in 1..Len(out) : out[i] = x})
      = Cardinality({i \in 1..Len(seq) : seq[i] = x})

\* What C14 says of a start index s of the finished run.
SameAsShifted ==
  LET n == Len(sequence)
      other == iterate_from(sequence, start_index - n)
  IN /\ iterated.error = NoError
     /\ other.error = NoError
     /\ iterated.yielded = other.yielded
     /\ \E r \in 0..(n - 1) : IsRotation(iterated.yielded, sequence, r)
     /\ SameElements(iterated.yielded, sequence)

\* C14 (as stated): for a sequence of length n and every start index s in
\* [-n, n-1], iterate_from(seq, s) and iterate_from(seq, s-n) produce identical
\* output sequences, each a full rotation of seq holding every element once.
C14_ShiftedStartSame ==
  (iterated.done /\ start_index \in (-Len(sequence))..(Len(sequence) - 1))
  => SameAsShifted

\* C14 (amended): the same for every start index s in [0, n-1]; for a negative
\* s the index s-n lies outside [-n, n-1] and iterate_from(seq, s-n) fails.
C14_ShiftedStartSameNonNegative ==
  (iterated.done /\ start_index \in 0..(Len(sequence) - 1))
  => SameAsShifted

\* C14 witness: a run from the middle of a sequence of three distinct elements.
C14_Witness ==
  /\ iterated.done
  /\ sequence = <<1, 2, 3>>
  /\ start_index = 1
  /\ iterated.yielded = <<2, 3, 1>>

\* C15: iterate_from with a start index outside [-n, n-1] fails with an
\* assertion error before yielding any element; it never clamps or wraps.
C15_OutOfRangeAsserts ==
  (iterated.done /\ start_index \notin (-Len(sequence))..(Len(sequence) - 1))
  => /\ iterated.error = "AssertionError"
     /\ iterated.yielded = <<>>

\* C15 witness: start indices two beyond either end of a sequence of three.
C15_Witness ==
  /\ iterated.done
  /\ Len(sequence) = 3
  /\ start_index \in {5, -5}
  /\ iterated.error = "AssertionError"

\* The digits of num_bytes that are not 0 above the lowest j.
SignificantAbove(j) == \E i \in (j + 1)..Len(num_bytes) : num_bytes[i] # 0

\* The exponent of the smallest unit whose scaled value is below the
\* threshold, the largest unit if there is none.
SmallestUnit ==
  CHOOSE e \in 0..(Len(prefixes) - 1) :
    /\ ~SignificantAbove(e + 1) \/ e = Len(prefixes) - 1
    /\ \A d \in 0..(e - 1) : SignificantAbove(d + 1)

\* C16: for every non-negative byte count and base in {2, 10}, format_size
\* picks the smallest unit among B, K, M, G, T, P such that the scaled value is
\* below the threshold (1024 or 1000); only the largest unit (P) may show a
\* value at or above the threshold.
C16_SmallestUnitBelowThreshold ==
  formatted.done
  => /\ formatted.exponent = SmallestUnit
     /\ formatted.prefix = prefixes[SmallestUnit + 1]
     /\ formatted.whole >= ScaleOf(base) => formatted.prefix = "P"

RECURSIVE Preorder(_)
\* Every path at or below p, depth-first in listing order, whatever exists.
Preorder(p) ==
  LET RECURSIVE Below(_, _)
      Below(children, i) ==
        IF i > Len(children) THEN <<>>
        ELSE Preorder(children[i]) \o Below(children, i + 1)
  IN IF p \in Dirs THEN <<p>> \o Below(listdir[p], 1) ELSE <<p>>

\* The directory that lists p.
ParentOf(p) == CHOOSE d \in Dirs : \E i \in 1..Len(listdir[d]) : listdir[d][i] = p
HasParent(p) == \E d \in Dirs : \E i \in 1..Len(listdir[d]) : listdir[d][i] = p

RECURSIVE LevelsBelow(_, _)
\* How many levels p lies below arg, for p at or below arg.
LevelsBelow(arg, p) == IF p = arg THEN 0 ELSE 1 + LevelsBelow(arg, ParentOf(p))

RECURSIVE Reachable(_, _)
\* Whether p is arg or lies below it through directories that exist.
Reachable(arg, p) ==
  \/ p = arg
  \/ /\ HasParent(p)
     /\ ParentOf(p) \notin missing
     /\ Reachable(arg, ParentOf(p))

\* Whether p is looked at when arg is scanned with depth bound d.
Visited(arg, p, d) ==
  /\ Reachable(arg, p)
  /\ d = -1 \/ LevelsBelow(arg, p) <= d

\* The files an argument stands for with depth bound d: those that exist at
\* most d levels below it (at every depth for -1), depth-first.
FilesOf(arg, d) ==
  IF arg \notin Paths THEN <<>>
  ELSE LET Wanted(p) == /\ p \notin Dirs
                        /\ p \notin missing
                        /\ Visited(arg, p, d)
       IN SelectSeq(Preorder(arg), Wanted)

RECURSIVE FilesOfAll(_, _)
\* The files of each argument in turn.
FilesOfAll(args, d) ==
  IF args = <<>> THEN <<>>
  ELSE FilesOf(Head(args), d) \o FilesOfAll(Tail(args), d)

\* Whether a call with these arguments looks at an entry that does not exist.
VisitsMissing(args, d) ==
  \E i \in 1..Len(args) :
    \/ args[i] \notin Paths
    \/ \E p \in missing : p \in Paths /\ Visited(args[i], p, d)

\* C17: get_files bounds directory recursion by recurse_max: with 0 no
\* directory is descended into (a directory argument contributes no files,
\* file arguments are still returned); with a positive d only files at most d
\* levels below an argument are returned; with -1 files at every depth.
C17_DepthBound ==
  (got.called /\ got.returned)
  => /\ got.files = FilesOfAll(got.entry_list, got.recurse_max)
     /\ got.recurse_max = 0
        => got.files = SelectSeq(got.entry_list,
                                 LAMBDA e : e \in (Files \cup Others) \ missing)

\* C17 witness: a directory scanned with bound 2 gives its files down to the
\* second level and not the one at the third.
C17_Witness ==
  /\ got.called
  /\ got.entry_list = <<"a">>
  /\ got.recurse_max = 2
  /\ got.files = <<"a/1", "a/b/2", "a/5">>

\* The file system with the paths that do not exist taken out of the listings.
OSWithoutMissing ==
  [missing |-> {},
   listdir |-> [d \in Dirs |-> SelectSeq(listdir[d], LAMBDA p : p \notin missing)]]

\* The entries with those that do not exist taken out.
WithoutMissing(args) == SelectSeq(args, LAMBDA e : e \in Paths \ missing)

RECURSIVE LinesOf(_)
\* The lines of the list files that can be read, in order.
LinesOf(file_list) ==
  IF file_list = <<>> THEN <<>>
  ELSE (IF Head(file_list) \in DOMAIN ListFileLines
          THEN ListFileLines[Head(file_list)] ELSE <<>>)
       \o LinesOf(Tail(file_list))

\* The path arguments of the last gather_images call: the arguments, then the
\* lines of the list files.
GatherInputs == gathered.image_list \o LinesOf(gathered.file_list)
GatherDepth == IF gathered.recurse THEN -1 ELSE 1

\* Whether get_files ran in the last gather_images call.
GatherScanned ==
  /\ gathered.called
  /\ gathered.soft_errors
     \/ \A i \in 1..Len(gathered.file_list) :
          gathered.file_list[i] \in DOMAIN ListFileLines

\* C18: when an entry visited by get_files does not exist: without soft errors
\* the whole gather fails with an error and returns no file list at all; with
\* soft errors the missing entry is skipped and the result equals the result
\* for the same input without that entry.
C18_MissingEntry ==
  /\ (got.called /\ VisitsMissing(got.entry_list, got.recurse_max))
     => IF got.soft_errors
          THEN LET without == get_files(OSWithoutMissing,
                                        WithoutMissing(got.entry_list),
                                        got.recurse_max, FALSE)
               IN /\ got.returned
                  /\ without.returned
                  /\ got.files = without.files
          ELSE /\ ~got.returned
               /\ got.files = <<>>
               /\ got.error = "FileNotFoundError"
  /\ (GatherScanned /\ VisitsMissing(GatherInputs, GatherDepth))
     => IF gathered.soft_errors
          THEN LET without == get_files(OSWithoutMissing,
                                        WithoutMissing(GatherInputs),
                                        GatherDepth, FALSE)
               IN /\ gathered.returned
                  /\ without.returned
                  /\ gathered.files = without.files
          ELSE /\ ~gathered.returned
               /\ gathered.files = <<>>
               /\ gathered.error = "FileNotFoundError"

\* C18 witness: a directory whose first listed child does not exist is
\* scanned with soft errors and the scan goes on to the other children.
C18_Witness ==
  /\ got.called
  /\ got.soft_errors
  /\ got.entry_list = <<"a", "x">>
  /\ missing = {"a/1"}
  /\ got.recurse_max = -1
  /\ got.files = <<"a/b/2", "a/b/c/3", "a/5">>

C20_EmptyIsStartupError ==
  /\ (startup.by = "main" /\ startup.gathered /\ startup.images = <<>>)
     => /\ startup.error # NoError
        /\ startup.status = EXIT_USAGE
        /\ ~startup.window
        /\ ~startup.shown
  /\ (startup.by = "ImageManager" /\ startup.images = <<>>)
     => /\ startup.error = "ValueError"
        /\ ~startup.window
  /\ startup.window
     => /\ startup.count = Len(startup.images)
        /\ 0 <= startup.index
        /\ startup.index < startup.count

\* C20 witness: main has gathered an empty list and left with a usage error.
C20_Witness ==
  /\ startup.by = "main"
  /\ startup.gathered
  /\ startup.images = <<>>
  /\ startup.status = EXIT_USAGE
  /\ ~startup.window

\* The file name of the last image of the sequence; no other image has it and
\* no image is named by the empty text.
LastImageName == <<"a">>

\* The index of the image a text names, -1 when it names none.
ImageNamed(t) == IF t = LastImageName THEN count - 1 ELSE -1

\* C21: submitting text in GOTO mode sets the current index to the image named
\* by the text (an index or a filename); a value that is out of range or
\* matches no image signals an error without crashing the program.
C21_GotoSetsIndex ==
  dispatched = MODE_GOTO
  => /\ ~closed
     /\ IF ImageNamed(text) >= 0
          THEN index = ImageNamed(text)
          ELSE warned \/ error # NoError

\* C22: pressing the delete key (Shift+d) while the input box is unfocused
\* marks the current image for deletion (appends a delete intent for the
\* current path to the output action log) and advances to the next image.
C22_DeleteMarksAndAdvances ==
  [][(key' = "Shift+d" /\ ~focus) =>
       /\ output' = Append(output, <<"delete", index>>)
       /\ index' = (index + 1) % count]_vars

\* C23: interpret_amount returns a number between minval and maxval for every
\* value it accepts: None yields maxval, a percentage string "p%" yields
\* minval + p/100 * (maxval - minval) converted to the requested type, and a
\* plain numeric string yields a value within [minval, maxval].
C23_AmountInRange ==
  (amount.called /\ amount.error = NoError)
  => /\ amount.minval * 100 <= amount.result
     /\ amount.result <= amount.maxval * 100
     /\ amount.kind = "None" => amount.result = amount.maxval * 100
     /\ amount.kind = "percent"
        => LET exact == amount.minval * 100
                        + amount.n * (amount.maxval - amount.minval)
           IN IF amount.astype = "int"
                THEN /\ amount.result % 100 = 0
                     /\ exact - 100 < amount.result
                     /\ amount.result < exact + 100
                ELSE amount.result = exact

\* C24: in every reachable state of the window, the mode differs from NONE
\* exactly when the input box is visible: every mode entry shows the box, and
\* every reset of the mode to NONE (Escape or submission) hides it.
C24_ModeIffVisible ==
  (mode # MODE_NONE) <=> visible

\* C24 witness: a command with typed text has been submitted: the mode is NONE
\* again and the box that the mode entry had shown is hidden.
C24_Witness ==
  /\ dispatched = MODE_COMMAND
  /\ mode = MODE_NONE
  /\ ~visible
  /\ ~closed
  /\ text # <<>>

\* C25: a mode-entry key changes the mode only from NONE: once a mode is
\* pending, no mode-entry key replaces it with a different mode until Escape or
\* a submission has reset it to NONE, also when the input box is still visible
\* but has lost keyboard focus.
C25_ModeEntryOnlyFromNone ==
  [][\A k \in ModeEntryKeys :
       (key' = k /\ mode # MODE_NONE) => mode' = mode]_vars

\* C26: from every reachable state with the window open, two consecutive
\* Escape presses with no event in between close the window: the first cancels
\* a pending input (or already closes), and after it the input box is hidden
\* and unfocused so the second one closes.
C26_TwoEscapesClose ==
  [][/\ key' = "Escape"
        => closed' \/ (mode' = MODE_NONE /\ ~visible' /\ ~focus')
     /\ (key = "Escape" /\ key' = "Escape") => closed']_vars

\* C26 witness: Escape has closed a window in which an input with typed text
\* had been pending and was put away before.
C26_Witness ==
  /\ key = "Escape"
  /\ closed
  /\ mode = MODE_NONE
  /\ ~visible
  /\ ~focus
  /\ text # <<>>

\* C27: set_index commits the new index before it redraws: when an in-range
\* navigation step lands on an image whose redraw fails with a value error,
\* the current index is already the new value, and the next advance is
\* computed from that new index, not from the index before the failed step.
C27_IndexCommittedBeforeRedraw ==
  [][\A k \in AdvanceKeys :
       LET target == (index + AdvanceBy(k)) % count
       IN /\ (key' = k /\ ~focus /\ target \in undrawable)
             => /\ error' = "ValueError"
                /\ index' = target
          /\ (key' = k /\ ~focus /\ index \in undrawable)
             => index' = target]_vars

\* C27 witness: next was pressed on the last image, which cannot be drawn and
\* which only a failed step can have made current, and it went on to the first.
C27_Witness ==
  /\ key = "Right"
  /\ ~blocked
  /\ count >= 3
  /\ undrawable = {count - 1}
  /\ index = 0
  /\ error = NoError

\* The files an argument stands for without recursion: the argument itself,
\* or the files listed directly in it when it is a directory.
DirectFilesOf(arg) ==
  IF arg \notin Paths \ missing THEN <<>>
  ELSE IF arg \in Dirs
    THEN SelectSeq(listdir[arg], LAMBDA p : p \notin Dirs /\ p \notin missing)
    ELSE <<arg>>

\* The files an argument stands for with recursion: every file that exists
\* below it, at whatever depth.
AllFilesOf(arg) ==
  IF arg \notin Paths \ missing THEN <<>>
  ELSE SelectSeq(Preorder(arg),
                 LAMBDA p : p \notin Dirs /\ p \notin missing /\ Reachable(arg, p))

RECURSIVE Concat(_)
Concat(seqs) == IF seqs = <<>> THEN <<>> ELSE Head(seqs) \o Concat(Tail(seqs))

\* C28: without the recurse flag gather_images uses depth bound 1: a directory
\* given as an argument contributes the files directly inside it while its
\* subdirectories are skipped; with the recurse flag the depth is unbounded
\* and files at every depth below the argument are returned.
C28_RecurseFlag ==
  (gathered.called /\ gathered.returned)
  => gathered.files =
       Concat([i \in 1..Len(GatherInputs) |->
                 IF gathered.recurse
                   THEN AllFilesOf(GatherInputs[i])
                   ELSE DirectFilesOf(GatherInputs[i])])

\* C28 witness: a directory with a subdirectory was gathered without the
\* recurse flag and gave the two files directly inside it.
C28_Witness ==
  /\ gathered.called
  /\ ~gathered.recurse
  /\ gathered.image_list = <<"a">>
  /\ gathered.file_list = <<>>
  /\ missing = {}
  /\ gathered.files = <<"a/1", "a/5">>

\* C29: format_size with base 2 always uses the suffix "B" after the unit
\* prefix; with base 10 it uses "iB" exactly when the byte count is at least
\* 1000 and "B" below 1000, so the result is never a bare "<num> iB" without a
\* unit prefix.
C29_Suffix ==
  formatted.done
  => /\ base = 2 => formatted.suffix = "B"
     /\ base = 10 => formatted.suffix = (IF SignificantAbove(1) THEN "iB" ELSE "B")
     /\ formatted.suffix \in {"B", "iB"}
     /\ formatted.suffix = "iB" => formatted.prefix # ""

\* C29 witness: 999 bytes in base 10 keep the plain suffix.
C29_Witness ==
  /\ formatted.done
  /\ base = 10
  /\ num_bytes = <<999>>
  /\ places = 2
  /\ formatted.text = "999.0 B"
====
